---- MODULE Spec2Model ----
(***************************************************************************)
(* Read-through caching and metadata merge of the pub proxy:               *)
(* PackageRepository, ProxyPackageUseCase (Lookup), UploadPackageUseCase,  *)
(* DownloadPackageUseCase and ListPackagesUseCase over one storage backend.*)
(*                                                                         *)
(* A version string is a sequence of one-character strings, so that the    *)
(* split / int / string comparisons of _compare_versions are computed as   *)
(* the code computes them.  Python's None is a value of its own.           *)
(***************************************************************************)
EXTENDS Integers, Sequences, FiniteSets, Bags, TLC

\* ------------------------------------------------------------------ bounds
\* Operations started in one behaviour (requests are unbounded in the code).
MaxOps == 2
\* Uploads started in one behaviour of uploads alone.
MaxUploads == 3
\* Concurrent request handlers (threads of the server).
MaxWorkers == 2
\* Length of the "versions" list of an upstream package payload.
MaxPayloadLen == 2
\* Length of the versions list of a Package handed to save_package directly.
MaxStoredVersions == 2
\* Length of the packages list of an upstream search answer.
MaxSearchLen == 2
\* Page numbers and page sizes asked of the package listing.
MaxPage == 3
MaxPageSize == 2
\* Lines of the pubspec.yaml of an uploaded archive.
MaxManifestLines == 2
\* Uploads and downloads started in one behaviour of publishing.
MaxPublishes == 2
\* save_package calls started in one behaviour of racing saves.
MaxSaves == 3
\* Downloads and lookups started in one behaviour of upstream answers.
MaxFetches == 3

\* ------------------------------------------------------------- strings
Digits == {"0", "1", "2", "3", "4", "5", "6", "7", "8", "9"}

\* int() of one decimal digit.
DigitVal ==
  [c \in Digits |->
     CASE c = "0" -> 0 [] c = "1" -> 1 [] c = "2" -> 2 [] c = "3" -> 3
       [] c = "4" -> 4 [] c = "5" -> 5 [] c = "6" -> 6 [] c = "7" -> 7
       [] c = "8" -> 8 [] c = "9" -> 9]

\* Code points of the characters used, the order of Python's str comparison.
Ord ==
  [c \in Digits \cup {"+", "-", ".", "B", "a", "b"} |->
     CASE c = "+" -> 43 [] c = "-" -> 45 [] c = "." -> 46
       [] c = "B" -> 66 [] c = "a" -> 97 [] c = "b" -> 98
       [] OTHER -> 48 + DigitVal[c]]

\* Python's None, as a version string / optional field.
NoneV == <<"None">>

\* Truthiness of an Optional[str]: None and "" are falsy.
Truthy(s) == s # NoneV /\ s # <<>>

\* Index of the first occurrence of c in s, 0 when there is none.
Find(s, c) ==
  IF \E i \in 1..Len(s) : s[i] = c
  THEN CHOOSE i \in 1..Len(s) : s[i] = c /\ \A j \in 1..(i - 1) : s[j] # c
  ELSE 0

\* c in s
Has(s, c) == Find(s, c) # 0

\* s.split(c)[0]
Before(s, c) == IF Has(s, c) THEN SubSeq(s, 1, Find(s, c) - 1) ELSE s

\* s.split(c, 1)[1], for a string that contains c
AfterFirst(s, c) == SubSeq(s, Find(s, c) + 1, Len(s))

\* s.split(c)
RECURSIVE Split(_, _)
Split(s, c) ==
  IF Has(s, c) THEN <<Before(s, c)>> \o Split(AfterFirst(s, c), c) ELSE <<s>>

\* int(s) raises ValueError: s is empty or has a character that is no digit.
IntRaises(s) == s = <<>> \/ \E i \in 1..Len(s) : s[i] \notin Digits

\* int(s) of a string of decimal digits
RECURSIVE ParseInt(_)
ParseInt(s) ==
  IF s = <<>> THEN 0
  ELSE 10 * ParseInt(SubSeq(s, 1, Len(s) - 1)) + DigitVal[s[Len(s)]]

\* Python's str comparison a < b: by code point, a proper prefix is smaller.
RECURSIVE StrLess(_, _)
StrLess(a, b) ==
  IF b = <<>> THEN FALSE
  ELSE IF a = <<>> THEN TRUE
  ELSE IF Ord[a[1]] < Ord[b[1]] THEN TRUE
  ELSE IF Ord[a[1]] > Ord[b[1]] THEN FALSE
  ELSE StrLess(Tail(a), Tail(b))

\* Component i of a list of release components, 0 past its end.
PartAt(parts, i) == IF i <= Len(parts) THEN ParseInt(parts[i]) ELSE 0

Max(a, b) == IF a >= b THEN a ELSE b

\* The loop over the padded release components: first inequality decides.
RECURSIVE CompareParts(_, _, _)
CompareParts(p1, p2, i) ==
  IF i > Max(Len(p1), Len(p2)) THEN 0
  ELSE IF PartAt(p1, i) < PartAt(p2, i) THEN -1
  ELSE IF PartAt(p1, i) > PartAt(p2, i) THEN 1
  ELSE CompareParts(p1, p2, i + 1)

\* Variant: a side without prerelease wins whichever side it is.
ComparePreStableWins(pre1, pre2) ==
  IF pre1 = NoneV /\ pre2 = NoneV THEN 0
  ELSE IF pre1 = NoneV \/ pre2 = NoneV THEN 1
  ELSE IF StrLess(pre1, pre2) THEN -1
  ELSE IF StrLess(pre2, pre1) THEN 1
  ELSE 0

\* The prerelease rule shared by both comparators.
ComparePre(pre1, pre2) ==
  IF pre1 = NoneV /\ pre2 = NoneV THEN 0
  ELSE IF pre1 = NoneV THEN 1
  ELSE IF pre2 = NoneV THEN -1
  ELSE IF StrLess(pre1, pre2) THEN -1
  ELSE IF StrLess(pre2, pre1) THEN 1
  ELSE 0

\* ------------------------------------- PackageRepository._compare_versions
\* parse_version: split at the first '-', then cut the base at the first '+'.
RepoBase(v) == Before(IF Has(v, "-") THEN Before(v, "-") ELSE v, "+")
RepoPre(v) == IF Has(v, "-") THEN AfterFirst(v, "-") ELSE NoneV

\* The call raises: a None argument ('-' in None) or a non-integer component.
RepoCompareRaises(v1, v2) ==
  /\ v1 # v2
  /\ \/ v1 = NoneV
     \/ v2 = NoneV
     \/ \E p \in {RepoBase(v1), RepoBase(v2)} :
          \E i \in 1..Len(Split(p, ".")) : IntRaises(Split(p, ".")[i])

RepoCompareVersions(v1, v2) ==
  IF v1 = v2 THEN 0
  ELSE LET c == CompareParts(Split(RepoBase(v1), "."), Split(RepoBase(v2), "."), 1)
       IN IF c # 0 THEN c ELSE ComparePre(RepoPre(v1), RepoPre(v2))

\* ---------------------------------- UploadPackageUseCase._compare_versions
\* split('+')[0], then split('-')[0] and split('-')[1].
UploadClean(v) == Before(v, "+")
UploadBase(v) == Before(UploadClean(v), "-")
UploadPre(v) ==
  IF Has(UploadClean(v), "-") THEN Split(UploadClean(v), "-")[2] ELSE NoneV

\* int(v1_parts[i]) / int(v2_parts[i]) are evaluated inside the loop, so a
\* non-integer component raises only if the loop reaches it.
RECURSIVE UploadPartsRaise(_, _, _)
UploadPartsRaise(p1, p2, i) ==
  IF i > Max(Len(p1), Len(p2)) THEN FALSE
  ELSE IF (i <= Len(p1) /\ IntRaises(p1[i])) \/ (i <= Len(p2) /\ IntRaises(p2[i]))
       THEN TRUE
  ELSE IF PartAt(p1, i) # PartAt(p2, i) THEN FALSE
  ELSE UploadPartsRaise(p1, p2, i + 1)

\* The call raises: a None argument (None.split) or a non-integer component.
UploadCompareRaises(v1, v2) ==
  /\ v1 # v2
  /\ \/ v1 = NoneV
     \/ v2 = NoneV
     \/ UploadPartsRaise(Split(UploadBase(v1), "."), Split(UploadBase(v2), "."), 1)

UploadCompareVersions(v1, v2) ==
  IF v1 = v2 THEN 0
  ELSE LET c == CompareParts(Split(UploadBase(v1), "."), Split(UploadBase(v2), "."), 1)
       IN IF c # 0 THEN c ELSE ComparePre(UploadPre(v1), UploadPre(v2))

\* ---------------------------------------------------------------- data
Names == {"foo"}

V090 == <<"0", ".", "9", ".", "0">>
V100 == <<"1", ".", "0", ".", "0">>
V200 == <<"2", ".", "0", ".", "0">>

V100a == <<"1", ".", "0", ".", "0", "-", "a">>

\* Versions a client uploads or asks for.
Versions == {V090, V100, V200}
\* Versions uploaded in the runs of uploads alone: a prerelease among them.
UploadVersions == Versions \cup {V100a}
\* Versions the upstream registry publishes.
UpstreamVersions == {V100, V200}

\* datetime values, and their ISO-8601 strings.
DtNow == "datetime(now)"
DtUpstream == "datetime(2023-01-01 00:00:00 UTC)"

\* datetime.fromisoformat
FromIsoFormat(s) ==
  CASE s = "2023-01-01T00:00:00.000Z" -> DtUpstream
    [] s = "2023-01-01T00:00:00+00:00" -> DtUpstream
    [] s = "now" -> DtNow

\* datetime.isoformat
IsoFormat(d) ==
  CASE d = DtUpstream -> "2023-01-01T00:00:00+00:00"
    [] d = DtNow -> "now"

\* An archive locator: None, the upstream registry's, or the application's own
\* download endpoint {base_url}/api/packages/{name}/versions/{version}/archive.tar.gz
NoUrl == <<"None", "", <<>>>>
UpstreamUrl(n, v) == <<"https://pub.dev", n, v>>
SelfUrl(n, v) == <<"{base_url}/api", n, v>>

\* PackageVersion(...)
PackageVersion(v, published, deps, env, url, sha) ==
  [version |-> v, published |-> published, dependencies |-> deps,
   environment |-> env, archive_url |-> url, archive_sha256 |-> sha]

\* Package(...)
Package(n, versions, latest, descr, home, repository, private) ==
  [name |-> n, versions |-> versions, latest_version |-> latest,
   description |-> descr, homepage |-> home, repository |-> repository,
   is_private |-> private]

\* The version strings of a list of versions.
VersionNames(versions) == {versions[i].version : i \in 1..Len(versions)}

\* Index of the first entry of versions named v, 0 when there is none.
IndexOfVersion(versions, v) ==
  IF v \in VersionNames(versions)
  THEN CHOOSE i \in 1..Len(versions) :
         versions[i].version = v /\ \A j \in 1..(i - 1) : versions[j].version # v
  ELSE 0

\* Variant: the document is written without the latest_version.
MetadataOfWithoutLatest(package) ==
  [package EXCEPT !.latest_version = NoneV,
                  !.versions =
     [i \in 1..Len(package.versions) |->
        [package.versions[i] EXCEPT !.published = IsoFormat(@)]]]

\* save_package: the JSON document written for a Package.
MetadataOf(package) ==
  [package EXCEPT !.versions =
     [i \in 1..Len(package.versions) |->
        [package.versions[i] EXCEPT !.published = IsoFormat(@)]]]

\* get_package: the Package read from a JSON document.
PackageOf(metadata) ==
  [metadata EXCEPT !.versions =
     [i \in 1..Len(metadata.versions) |->
        [metadata.versions[i] EXCEPT !.published = FromIsoFormat(@)]]]

\* ------------------------------------------------------ upstream payloads
\* One entry of the "versions" list of GET /api/packages/{name}.
VersionInfo(n, v) ==
  [version |-> v, published |-> "2023-01-01T00:00:00.000Z",
   pubspec |-> [dependencies |-> "{http: ^1.0.0}", environment |-> "{sdk: >=3.0.0}"],
   archive_url |-> UpstreamUrl(n, v), archive_sha256 |-> "sha256(upstream)"]

\* All lists of at most k upstream version entries, repetitions included.
RECURSIVE VersionInfoLists(_, _)
VersionInfoLists(n, k) ==
  IF k = 0 THEN {<<>>}
  ELSE VersionInfoLists(n, k - 1) \cup
       {Append(l, VersionInfo(n, v)) :
          l \in {x \in VersionInfoLists(n, k - 1) : Len(x) = k - 1},
          v \in UpstreamVersions}

\* The package payloads GET /api/packages/{name} may answer with: 'latest'
\* present or not, 'versions' any list (empty, repeated entries, without the
\* latest one).
PackageInfos ==
  [n \in Names |->
     {[name |-> n, latest |-> l, description |-> "description",
       homepage |-> "homepage", repository |-> "repository", versions |-> vs] :
        l \in UpstreamVersions \cup {NoneV}, vs \in VersionInfoLists(n, MaxPayloadLen)}]

\* The payload of GET /api/packages/{name}/versions/{version}: no top-level
\* 'dependencies' key, so version_info.get('dependencies', {}) is {}.
VersionPayload(n, v) ==
  [version |-> v, published |-> "2023-01-01T00:00:00.000Z", dependencies |-> "{}",
   archive_url |-> UpstreamUrl(n, v), archive_sha256 |-> "sha256(upstream)"]

\* --------------------------------------------------- PackageRepository
\* Result of a merge: the Package built, and whether the call raised before
\* reaching save_package.
Built(package) == [package |-> package, raised |-> FALSE]
Raised(package) == [package |-> package, raised |-> TRUE]

\* save_package_info, lines 179-194: the Package before the versions loop.
\* found is <<>> for None, <<package>> otherwise.
InfoHeader(found, n, info) ==
  IF found = <<>>
  THEN Package(n, <<>>, info.latest, info.description, info.homepage,
               info.repository, FALSE)
  ELSE [found[1] EXCEPT !.latest_version = info.latest,
                        !.description = info.description,
                        !.homepage = info.homepage,
                        !.repository = info.repository]

\* Variant: an entry of the payload replaces the version of the same name.
RECURSIVE AddUpstreamVersionsReplacing(_, _, _)
AddUpstreamVersionsReplacing(package, infos, i) ==
  IF i > Len(infos) THEN Built(package)
  ELSE LET vi == infos[i]
           new == PackageVersion(vi.version, FromIsoFormat(vi.published),
                                 vi.pubspec.dependencies, vi.pubspec.environment,
                                 vi.archive_url, vi.archive_sha256)
           k == IndexOfVersion(package.versions, vi.version)
           merged == IF k # 0 THEN [package EXCEPT !.versions[k] = new]
                     ELSE [package EXCEPT !.versions = Append(@, new)]
       IN AddUpstreamVersionsReplacing(
            IF ~Truthy(merged.latest_version)
            THEN [merged EXCEPT !.latest_version = vi.version]
            ELSE merged, infos, i + 1)

\* Variant: every entry of the payload is appended, present or not.
RECURSIVE AddUpstreamVersionsUnchecked(_, _, _)
AddUpstreamVersionsUnchecked(package, infos, i) ==
  IF i > Len(infos) THEN Built(package)
  ELSE LET vi == infos[i]
           new == PackageVersion(vi.version, FromIsoFormat(vi.published),
                                 vi.pubspec.dependencies, vi.pubspec.environment,
                                 vi.archive_url, vi.archive_sha256)
           added == [package EXCEPT !.versions = Append(@, new)]
       IN AddUpstreamVersionsUnchecked(
            IF ~Truthy(added.latest_version)
            THEN [added EXCEPT !.latest_version = vi.version]
            ELSE added, infos, i + 1)

\* save_package_info, lines 197-220: the loop over package_info['versions'].
RECURSIVE AddUpstreamVersions(_, _, _)
AddUpstreamVersions(package, infos, i) ==
  IF i > Len(infos) THEN Built(package)
  ELSE LET vi == infos[i]
           added == [package EXCEPT !.versions =
                       Append(@, PackageVersion(vi.version, FromIsoFormat(vi.published),
                                                vi.pubspec.dependencies,
                                                vi.pubspec.environment,
                                                vi.archive_url, vi.archive_sha256))]
       IN IF vi.version \in VersionNames(package.versions)
          THEN AddUpstreamVersions(package, infos, i + 1)
          ELSE IF ~Truthy(package.latest_version)
          THEN AddUpstreamVersions([added EXCEPT !.latest_version = vi.version],
                                   infos, i + 1)
          ELSE IF RepoCompareRaises(vi.version, package.latest_version)
          THEN Raised(added)
          ELSE IF RepoCompareVersions(vi.version, package.latest_version) > 0
          THEN AddUpstreamVersions([added EXCEPT !.latest_version = vi.version],
                                   infos, i + 1)
          ELSE AddUpstreamVersions(added, infos, i + 1)

\* save_package_info up to (not including) save_package.
SavePackageInfo(found, n, info) ==
  AddUpstreamVersions(InfoHeader(found, n, info), info.versions, 1)

\* save_package_version, lines 239-268: create the package, update or append
\* the version.
VersionUpserted(found, n, v, vinfo) ==
  LET package == IF found = <<>>
                 THEN Package(n, <<>>, v, "None", "None", "None", FALSE)
                 ELSE found[1]
      i == IndexOfVersion(package.versions, v)
  IN IF i # 0
     THEN [package EXCEPT !.versions[i] =
             [@ EXCEPT !.published = FromIsoFormat(vinfo.published),
                       !.dependencies = vinfo.dependencies,
                       !.archive_url = vinfo.archive_url,
                       !.archive_sha256 = vinfo.archive_sha256]]
     ELSE [package EXCEPT !.versions =
             Append(@, PackageVersion(v, FromIsoFormat(vinfo.published),
                                      vinfo.dependencies, "{}",
                                      vinfo.archive_url, vinfo.archive_sha256))]

\* save_package_version up to (not including) save_package.
SavePackageVersion(found, n, v, vinfo) ==
  LET package == VersionUpserted(found, n, v, vinfo)
  IN IF ~Truthy(package.latest_version)
     THEN Built([package EXCEPT !.latest_version = v])
     ELSE IF RepoCompareRaises(v, package.latest_version) THEN Raised(package)
     ELSE IF RepoCompareVersions(v, package.latest_version) > 0
     THEN Built([package EXCEPT !.latest_version = v])
     ELSE Built(package)

\* ------------------------------------------------ UploadPackageUseCase
\* Variant: every upload becomes the latest version.
UploadPackageAlwaysLatest(found, n, v) ==
  LET fresh == PackageVersion(v, DtNow, "{}", "{}", SelfUrl(n, v), "sha256(upload)")
  IN IF found = <<>>
     THEN Built(Package(n, <<fresh>>, v, "None", "None", "None", TRUE))
     ELSE LET i == IndexOfVersion(found[1].versions, v)
          IN Built([found[1] EXCEPT
                      !.versions = IF i # 0 THEN [@ EXCEPT ![i] = fresh] ELSE Append(@, fresh),
                      !.latest_version = v])

\* execute, lines 94-135: the Package handed to save_package.
UploadPackage(found, n, v) ==
  LET fresh == PackageVersion(v, DtNow, "{}", "{}", SelfUrl(n, v), "sha256(upload)")
  IN IF found = <<>>
     THEN Built(Package(n, <<fresh>>, v, "None", "None", "None", TRUE))
     ELSE LET package == found[1]
              i == IndexOfVersion(package.versions, v)
              upserted ==
                IF i # 0
                THEN [package EXCEPT !.versions[i] =
                        [@ EXCEPT !.published = DtNow,
                                  !.archive_url = SelfUrl(n, v),
                                  !.archive_sha256 = "sha256(upload)"]]
                ELSE [package EXCEPT !.versions = Append(@, fresh)]
          IN IF UploadCompareRaises(v, package.latest_version) THEN Raised(upserted)
             ELSE IF UploadCompareVersions(v, package.latest_version) > 0
             THEN Built([upserted EXCEPT !.latest_version = v])
             ELSE Built(upserted)

\* -------------------------------- UploadPackageUseCase._extract_metadata
\* The text of pubspec.yaml is a sequence of tokens: the keys "name:" and
\* "version:", blanks, newlines and the characters of the values.
Whitespace == {" ", "\n"}

\* The lines a manifest is made of: a key with a value, a key and its value
\* without a blank between them, a key without a value.
ManifestLines ==
  {<<"name:", " ", "f">>, <<"name:", "f">>, <<"name:">>,
   <<"version:", " ", "1">>, <<"version:">>}

\* All texts of at most k lines, each line closed by a newline.
RECURSIVE ManifestContents(_)
ManifestContents(k) ==
  IF k = 0 THEN {<<>>}
  ELSE ManifestContents(k - 1) \cup
       {c \o l \o <<"\n">> :
          c \in {x \in ManifestContents(k - 1) :
                   Cardinality({i \in 1..Len(x) : x[i] = "\n"}) = k - 1},
          l \in ManifestLines}

\* The last position of the line that position p is on ('.' stops before a
\* newline, '$' holds before a newline or at the end).
LineEnd(s, p) ==
  CHOOSE k \in (p - 1)..Len(s) :
    /\ \A m \in p..k : s[m] # "\n"
    /\ k = Len(s) \/ s[k + 1] = "\n"

\* Where \s+ may end for a match of ^key\s+(.+)$ that begins at i: the
\* tokens after the key up to there are white space, newlines included, and
\* one token that is no newline follows for the group.
MatchEnds(s, i) ==
  {j \in (i + 1)..(Len(s) - 1) :
     /\ \A m \in (i + 1)..j : s[m] \in Whitespace
     /\ s[j + 1] # "\n"}

\* Where a match of ^key\s+(.+)$ may begin: at the start of a line.
MatchStarts(s, key) ==
  {i \in 1..Len(s) :
     /\ i = 1 \/ s[i - 1] = "\n"
     /\ s[i] = key
     /\ MatchEnds(s, i) # {}}

\* re.search(r'^key\s+(.+)$', content, re.MULTILINE): <<>> for None, else
\* <<group(1)>> of the leftmost match, \s+ and .+ greedy.
Search(s, key) ==
  IF MatchStarts(s, key) = {} THEN <<>>
  ELSE LET i == CHOOSE x \in MatchStarts(s, key) : \A y \in MatchStarts(s, key) : x <= y
           j == CHOOSE x \in MatchEnds(s, i) : \A y \in MatchEnds(s, i) : x >= y
       IN <<SubSeq(s, j + 1, LineEnd(s, j + 1))>>

\* str.strip()
RECURSIVE Strip(_)
Strip(s) ==
  IF s = <<>> THEN s
  ELSE IF s[1] \in Whitespace THEN Strip(Tail(s))
  ELSE IF s[Len(s)] \in Whitespace THEN Strip(SubSeq(s, 1, Len(s) - 1))
  ELSE s

\* An uploaded archive: pubspec is <<>> when the file is no gzip tarball or
\* has no member named pubspec.yaml, otherwise <<text of the member>>.
Archive(pubspec) == [pubspec |-> pubspec]

\* _extract_metadata, lines 161-185: ValueError, or (name, version).
ExtractMetadata(archive) ==
  IF archive.pubspec = <<>>
  THEN [raised |-> TRUE, name |-> NoneV, version |-> NoneV]
  ELSE LET name_match == Search(archive.pubspec[1], "name:")
           version_match == Search(archive.pubspec[1], "version:")
       IN IF name_match = <<>> \/ version_match = <<>>
          THEN [raised |-> TRUE, name |-> NoneV, version |-> NoneV]
          ELSE [raised |-> FALSE, name |-> Strip(name_match[1]),
                version |-> Strip(version_match[1])]

\* a or b
Or(a, b) == IF Truthy(a) THEN a ELSE b

\* ---------------------------------------------- DownloadPackageUseCase
\* _cache_package, lines 111-125: whether the repository record is rewritten.
CacheTouches(found, v) == found # <<>> /\ v \in VersionNames(found[1].versions)

\* Variant: the record is given the storage's own URL of the blob.
CachedPackageBlobUrl(found, n, v) ==
  [found[1] EXCEPT !.versions[IndexOfVersion(found[1].versions, v)].archive_url =
     <<"storage_service.get_blob_url", n, v>>]

\* _cache_package, lines 113-124: the Package handed to save_package.
CachedPackage(found, n, v) ==
  [found[1] EXCEPT !.versions[IndexOfVersion(found[1].versions, v)].archive_url =
     SelfUrl(n, v)]

\* ------------------------------------------------- ProxyPackageUseCase
\* version.environment or {'sdk': '>=2.12.0 <4.0.0'}
EnvironmentOr(environment) ==
  IF environment = "{}" THEN "{sdk: >=2.12.0 <4.0.0}" ELSE environment

\* _package_to_dict, lines 126-140 and 146-160: the entry of one version.
VersionEntry(package, pv) ==
  [version |-> pv.version, published |-> IsoFormat(pv.published),
   archive_url |-> pv.archive_url, archive_sha256 |-> pv.archive_sha256,
   pubspec |-> [name |-> package.name, version |-> pv.version,
                description |-> package.description, homepage |-> package.homepage,
                repository |-> package.repository, dependencies |-> pv.dependencies,
                environment |-> EnvironmentOr(pv.environment)]]

\* _package_to_dict, lines 116-167: 'latest' is the entry of the first version
\* named latest_version, None (<<>>) when there is none.
PackageToDict(package) ==
  [name |-> package.name,
   latest |-> LET i == IndexOfVersion(package.versions, package.latest_version)
              IN IF i = 0 THEN <<>> ELSE <<VersionEntry(package, package.versions[i])>>,
   versions |-> [i \in 1..Len(package.versions) |->
                   VersionEntry(package, package.versions[i])]]

\* The locator f'http://example.com/test_package-{version}.tar.gz'
ExampleUrl(v) == <<"http://example.com", "test_package", v>>

\* _version_to_dict, lines 169-185; published is isoformat() + '.000Z'.
VersionToDict(pv) ==
  [version |-> pv.version, published |-> <<IsoFormat(pv.published), ".000Z">>,
   archive_url |-> ExampleUrl(pv.version),
   pubspec |-> [name |-> "test_package", version |-> pv.version,
                environment |-> EnvironmentOr(pv.environment)]]

\* --------------------------------------------------------------- state
VARIABLES
  repo,     \* the metadata documents: package name -> packages/{name}/metadata.json
  blobs,    \* the archive blobs stored: <<name, version>> for {name}/{version}/archive.tar.gz
  inflight, \* the requests being handled: a bag of handler positions and locals
  last,     \* the operation that returned most recently, and what it did
  started   \* operations started so far

vars == <<repo, blobs, inflight, last, started>>

\* A request being handled: where its handler stands and what it holds.
Request(pc, n, v, found, calls) ==
  [pc |-> pc, name |-> n, version |-> v, found |-> found, calls |-> calls]

NoOp == [op |-> "none", name |-> "", version |-> NoneV, ret |-> "None",
         body |-> <<>>, calls |-> 0, wrote |-> FALSE, temp_file |-> "None"]

\* What an operation reports when it returns: where its answer came from
\* (ret), the upstream calls it made, whether it wrote the metadata document,
\* and what became of its tempfile.NamedTemporaryFile(delete=False): "None"
\* when it made none, "unlinked", or "exists" when the file is still there.
Returned(op, n, v, ret, calls, wrote) ==
  [op |-> op, name |-> n, version |-> v, ret |-> ret, body |-> <<>>,
   calls |-> calls, wrote |-> wrote, temp_file |-> "None"]

\* The operation returns with its temporary file unlinked, or still there.
Leaving(rec, temp_file) == [rec EXCEPT !.temp_file = temp_file]

\* A lookup answered from the repository: body is the dictionary returned.
ReturnedRecord(op, n, v, dict) ==
  [Returned(op, n, v, "repo", 0, FALSE) EXCEPT !.body = <<dict>>]

\* A lookup that returns the payload fetched from upstream after writing it back.
ReturnedPayload(op, n, v, payload) ==
  [op |-> op, name |-> n, version |-> v, ret |-> "upstream", body |-> <<payload>>,
   calls |-> 1, wrote |-> TRUE, temp_file |-> "None"]

\* PackageRepository.get_package: None (<<>>) when the blob does not exist.
GetPackage(n) == IF n \in DOMAIN repo THEN <<PackageOf(repo[n])>> ELSE <<>>

\* PackageRepository.save_package: the repository after the write.
SavePackage(package) ==
  [m \in DOMAIN repo \cup {package.name} |->
     IF m = package.name THEN MetadataOf(package) ELSE repo[m]]

Init ==
  /\ repo = <<>>
  /\ blobs = {}
  /\ inflight = EmptyBag
  /\ last = NoOp
  /\ started = 0

\* A request is taken while a handler thread is free.
CanStart == BagCardinality(inflight) < MaxWorkers

\* The handler of a new request runs up to position r.
Begin(r) ==
  /\ inflight' = inflight (+) SetToBag({r})
  /\ started' = started + 1

\* The handler of r runs on to position r2.
Continue(r, r2) == inflight' = (inflight (-) SetToBag({r})) (+) SetToBag({r2})

\* The handler of r returns.
Finish(r, rec) ==
  /\ inflight' = inflight (-) SetToBag({r})
  /\ last' = rec

\* ---------------------------------- ProxyPackageUseCase.get_package_info
\* Variant: a record without versions is taken for a miss.
LookupInfoHitNonEmpty(found) == found # <<>> /\ found[1].versions # <<>>

\* Lines 57-61: the repository is asked first; a record is returned as is.
LookupInfoHit(found) == found # <<>>

LookupInfoStart(n) ==
  /\ CanStart
  /\ IF LookupInfoHit(GetPackage(n))
     THEN /\ last' = ReturnedRecord("get_package_info", n, NoneV,
                                    PackageToDict(GetPackage(n)[1]))
          /\ started' = started + 1
          /\ UNCHANGED <<repo, blobs, inflight>>
     ELSE /\ Begin(Request("info_fetch", n, NoneV, <<>>, 0))
          /\ UNCHANGED <<repo, blobs, last>>

\* Variant: an absent upstream answer is cached as an empty record.
LookupInfoFetchCachesNothing(r) ==
  /\ r.pc = "info_fetch"
  /\ repo' = SavePackage(Package(r.name, <<>>, NoneV, "None", "None", "None", FALSE))
  /\ Finish(r, Returned("get_package_info", r.name, NoneV, "None", 1, FALSE))
  /\ UNCHANGED <<blobs, started>>

\* Lines 64-70 and save_package_info line 177: the upstream answer; nothing
\* is saved for None, otherwise save_package_info reads the record. What the
\* payload holds is first looked at by the merge, in LookupInfoSave.
LookupInfoFetch(r) ==
  /\ r.pc = "info_fetch"
  /\ \/ /\ Finish(r, Returned("get_package_info", r.name, NoneV, "None", 1, FALSE))
        /\ UNCHANGED <<repo, blobs, started>>
     \/ /\ Continue(r, Request("info_save", r.name, NoneV, GetPackage(r.name), 1))
        /\ UNCHANGED <<repo, blobs, last, started>>

\* save_package_info lines 179-223, then get_package_info returns the payload.
LookupInfoSave(r) ==
  /\ r.pc = "info_save"
  /\ \E info \in PackageInfos[r.name] :
       LET built == SavePackageInfo(r.found, r.name, info)
       IN IF built.raised
          THEN /\ Finish(r, Returned("get_package_info", r.name, NoneV, "raise", 1, FALSE))
               /\ UNCHANGED <<repo, blobs, started>>
          ELSE /\ repo' = SavePackage(built.package)
               /\ Finish(r, ReturnedPayload("get_package_info", r.name, NoneV, info))
               /\ UNCHANGED <<blobs, started>>

\* ------------------------------- ProxyPackageUseCase.get_package_version
\* Variant: the loop looks at the first stored version alone.
LookupVersionHitFirstOnly(found, v) ==
  found # <<>> /\ found[1].versions # <<>> /\ found[1].versions[1].version = v

\* Lines 84-90: a hit needs the record and the version in it.
LookupVersionHit(found, v) == found # <<>> /\ v \in VersionNames(found[1].versions)

LookupVersionStart(n, v) ==
  /\ CanStart
  /\ IF LookupVersionHit(GetPackage(n), v)
     THEN /\ last' = ReturnedRecord("get_package_version", n, v,
              LET package == GetPackage(n)[1]
              IN VersionToDict(package.versions[IndexOfVersion(package.versions, v)]))
          /\ started' = started + 1
          /\ UNCHANGED <<repo, blobs, inflight>>
     ELSE /\ Begin(Request("version_fetch", n, v, <<>>, 0))
          /\ UNCHANGED <<repo, blobs, last>>

\* Lines 93-99 and save_package_version line 237.
LookupVersionFetch(r) ==
  /\ r.pc = "version_fetch"
  /\ \/ /\ Finish(r, Returned("get_package_version", r.name, r.version, "None", 1, FALSE))
        /\ UNCHANGED <<repo, blobs, started>>
     \/ /\ Continue(r, Request("version_save", r.name, r.version, GetPackage(r.name), 1))
        /\ UNCHANGED <<repo, blobs, last, started>>

\* save_package_version lines 239-275, then the payload is returned.
LookupVersionSave(r) ==
  /\ r.pc = "version_save"
  /\ LET built == SavePackageVersion(r.found, r.name, r.version,
                                     VersionPayload(r.name, r.version))
     IN IF built.raised
        THEN /\ Finish(r, Returned("get_package_version", r.name, r.version,
                                   "raise", 1, FALSE))
             /\ UNCHANGED <<repo, blobs, started>>
        ELSE /\ repo' = SavePackage(built.package)
             /\ Finish(r, ReturnedPayload("get_package_version", r.name, r.version,
                                          VersionPayload(r.name, r.version)))
             /\ UNCHANGED <<blobs, started>>

\* ------------------------------------------ UploadPackageUseCase.execute
\* Variant: the record is written, the archive is not stored.
UploadStoreWithoutArchive(n, v) ==
  /\ CanStart
  /\ Begin(Request("upload_save", n, v, GetPackage(n), 0))
  /\ UNCHANGED <<repo, blobs, last>>

\* Lines 81-94: the archive is stored, then the record is read.
UploadStore(n, v) ==
  /\ CanStart
  /\ blobs' = blobs \cup {<<n, v>>}
  /\ Begin(Request("upload_save", n, v, GetPackage(n), 0))
  /\ UNCHANGED <<repo, last>>

\* Lines 96-146: the record is built and saved.
UploadSave(r) ==
  /\ r.pc = "upload_save"
  /\ LET built == UploadPackage(r.found, r.name, r.version)
     IN IF built.raised
        THEN /\ Finish(r, Leaving(Returned("upload", r.name, r.version, "raise", 0, FALSE),
                                  "unlinked"))
             /\ UNCHANGED <<repo, blobs, started>>
        ELSE /\ repo' = SavePackage(built.package)
             /\ Finish(r, Leaving(Returned("upload", r.name, r.version, "success", 0, TRUE),
                                  "unlinked"))
             /\ UNCHANGED <<blobs, started>>

\* ---------------------------------------- DownloadPackageUseCase.execute
\* Variant: the version being recorded in the metadata counts as stored.
DownloadHitRecorded(n, v) ==
  n \in DOMAIN repo /\ v \in VersionNames(repo[n].versions)

\* Line 74: blob_exists('{name}/{version}/archive.tar.gz')
DownloadHit(n, v) == <<n, v>> \in blobs

\* Lines 73-78: a stored blob is copied to a temporary file, whose name is
\* returned.
DownloadStart(n, v) ==
  /\ CanStart
  /\ IF DownloadHit(n, v)
     THEN /\ last' = Leaving(Returned("download", n, v, "file", 0, FALSE), "exists")
          /\ started' = started + 1
          /\ UNCHANGED <<repo, blobs, inflight>>
     ELSE /\ Begin(Request("download_fetch", n, v, <<>>, 0))
          /\ UNCHANGED <<repo, blobs, last>>

\* Variant: the fetched archive is not stored.
DownloadCacheStoresNothing(r) ==
  /\ r.pc = "download_fetch"
  /\ \/ /\ Finish(r, Leaving(Returned("download", r.name, r.version, "raise", 1, FALSE),
                               "exists"))
        /\ UNCHANGED <<repo, blobs, started>>
     \/ /\ Continue(r, Request("download_save", r.name, r.version, GetPackage(r.name), 1))
        /\ UNCHANGED <<repo, blobs, last, started>>

\* Line 81 and _cache_package lines 101-111: the first upstream fetch; a
\* result that cannot be iterated raises, otherwise the blob is stored and the
\* record is read.
DownloadCache(r) ==
  /\ r.pc = "download_fetch"
  /\ \/ /\ Finish(r, Leaving(Returned("download", r.name, r.version, "raise", 1, FALSE),
                               "exists"))
        /\ UNCHANGED <<repo, blobs, started>>
     \/ /\ blobs' = blobs \cup {<<r.name, r.version>>}
        /\ Continue(r, Request("download_save", r.name, r.version, GetPackage(r.name), 1))
        /\ UNCHANGED <<repo, last, started>>

\* Variant: the cleanup at the end removes the stored blob with the temporary file.
DownloadSaveRemovesBlob(r) ==
  /\ r.pc = "download_save"
  /\ IF CacheTouches(r.found, r.version)
     THEN repo' = SavePackage(CachedPackage(r.found, r.name, r.version))
     ELSE UNCHANGED repo
  /\ blobs' = blobs \ {<<r.name, r.version>>}
  /\ Finish(r, Leaving(Returned("download", r.name, r.version, "stream", 2,
                                CacheTouches(r.found, r.version)), "unlinked"))
  /\ UNCHANGED started

\* Variant: the stream that was fetched for the cache is the one returned.
DownloadSaveSingleFetch(r) ==
  /\ r.pc = "download_save"
  /\ IF CacheTouches(r.found, r.version)
     THEN repo' = SavePackage(CachedPackage(r.found, r.name, r.version))
     ELSE UNCHANGED repo
  /\ Finish(r, Leaving(Returned("download", r.name, r.version, "stream", 1,
                                CacheTouches(r.found, r.version)), "unlinked"))
  /\ UNCHANGED <<blobs, started>>

\* _cache_package lines 112-128, then line 87: the second upstream fetch.
DownloadSave(r) ==
  /\ r.pc = "download_save"
  /\ IF CacheTouches(r.found, r.version)
     THEN repo' = SavePackage(CachedPackage(r.found, r.name, r.version))
     ELSE UNCHANGED repo
  /\ Finish(r, Leaving(Returned("download", r.name, r.version, "stream", 2,
                                CacheTouches(r.found, r.version)), "unlinked"))
  /\ UNCHANGED <<blobs, started>>

\* Lines 66-82: name and version are taken from the archive when either is
\* missing; a manifest that cannot be read ends the upload with ValueError,
\* the temporary file unlinked by the finally clause.
UploadExecute(package_name, version, archive) ==
  IF Truthy(package_name) /\ Truthy(version)
  THEN UploadStore(package_name, version)
  ELSE IF ExtractMetadata(archive).raised
  THEN /\ CanStart
       /\ started' = started + 1
       /\ last' = Leaving(Returned("upload", package_name, version, "ValueError", 0, FALSE),
                          "unlinked")
       /\ UNCHANGED <<repo, blobs, inflight>>
  ELSE UploadStore(Or(package_name, ExtractMetadata(archive).name),
                   Or(version, ExtractMetadata(archive).version))

\* A new request is admitted while fewer than bound operations have started.
Admitted(bound) == started < bound

Next ==
  \/ Admitted(MaxOps) /\ \E n \in Names : LookupInfoStart(n)
  \/ \E r \in BagToSet(inflight) : LookupInfoFetch(r)
  \/ \E r \in BagToSet(inflight) : LookupInfoSave(r)
  \/ Admitted(MaxOps) /\ \E n \in Names, v \in Versions : LookupVersionStart(n, v)
  \/ \E r \in BagToSet(inflight) : LookupVersionFetch(r)
  \/ \E r \in BagToSet(inflight) : LookupVersionSave(r)
  \/ Admitted(MaxOps) /\ \E n \in Names, v \in Versions : UploadStore(n, v)
  \/ \E r \in BagToSet(inflight) : UploadSave(r)
  \/ Admitted(MaxOps) /\ \E n \in Names, v \in Versions : DownloadStart(n, v)
  \/ \E r \in BagToSet(inflight) : DownloadCache(r)
  \/ \E r \in BagToSet(inflight) : DownloadSave(r)

Spec == Init /\ [][Next]_vars

\* Uploads only, one after the other: a request is taken when none is in hand.
NextUploads ==
  \/ /\ Admitted(MaxUploads) /\ inflight = EmptyBag
     /\ \E n \in Names, v \in UploadVersions : UploadStore(n, v)
  \/ \E r \in BagToSet(inflight) : UploadSave(r)

SpecUploads == Init /\ [][NextUploads]_vars

\* ------------------------------------------------- storage that may fail
\* A write of the storage backend raises (upload_string_to_blob inside
\* save_package, upload_file_to_blob): the exception leaves the handler.
\* save_package_info line 223 -> get_package_info line 68.
LookupInfoSaveFails(r) ==
  /\ r.pc = "info_save"
  /\ \E info \in PackageInfos[r.name] : ~SavePackageInfo(r.found, r.name, info).raised
  /\ Finish(r, Returned("get_package_info", r.name, NoneV, "storage_error", 1, FALSE))
  /\ UNCHANGED <<repo, blobs, started>>

\* save_package_version line 275 -> get_package_version line 97.
LookupVersionSaveFails(r) ==
  /\ r.pc = "version_save"
  /\ ~SavePackageVersion(r.found, r.name, r.version,
                         VersionPayload(r.name, r.version)).raised
  /\ Finish(r, Returned("get_package_version", r.name, r.version, "storage_error", 1, FALSE))
  /\ UNCHANGED <<repo, blobs, started>>

\* Variant: the failure to store the archive is passed over and the upload
\* goes on to the record.
UploadStoreFailsGoesOn(n, v) ==
  /\ CanStart
  /\ Begin(Request("upload_save", n, v, GetPackage(n), 0))
  /\ UNCHANGED <<repo, blobs, last>>

\* UploadPackageUseCase.execute line 82: the archive is not stored; the
\* finally clause unlinks the temporary file.
UploadStoreFails(n, v) ==
  /\ CanStart
  /\ started' = started + 1
  /\ last' = Leaving(Returned("upload", n, v, "storage_error", 0, FALSE), "unlinked")
  /\ UNCHANGED <<repo, blobs, inflight>>

\* UploadPackageUseCase.execute line 138, then the finally clause.
UploadSaveFails(r) ==
  /\ r.pc = "upload_save"
  /\ ~UploadPackage(r.found, r.name, r.version).raised
  /\ Finish(r, Leaving(Returned("upload", r.name, r.version, "storage_error", 0, FALSE),
                       "unlinked"))
  /\ UNCHANGED <<repo, blobs, started>>

\* _cache_package line 108: the exception passes line 128 by.
DownloadCacheFails(r) ==
  /\ r.pc = "download_fetch"
  /\ Finish(r, Leaving(Returned("download", r.name, r.version, "storage_error", 1, FALSE),
                       "exists"))
  /\ UNCHANGED <<repo, blobs, started>>

\* _cache_package line 124: the exception passes line 128 by.
DownloadSaveFails(r) ==
  /\ r.pc = "download_save"
  /\ CacheTouches(r.found, r.version)
  /\ Finish(r, Leaving(Returned("download", r.name, r.version, "save_error", 1, FALSE),
                       "exists"))
  /\ UNCHANGED <<repo, blobs, started>>

NextFaults ==
  \/ Next
  \/ \E r \in BagToSet(inflight) : LookupInfoSaveFails(r)
  \/ \E r \in BagToSet(inflight) : LookupVersionSaveFails(r)
  \/ Admitted(MaxOps) /\ \E n \in Names, v \in Versions : UploadStoreFails(n, v)
  \/ \E r \in BagToSet(inflight) : UploadSaveFails(r)
  \/ \E r \in BagToSet(inflight) : DownloadCacheFails(r)
  \/ \E r \in BagToSet(inflight) : DownloadSaveFails(r)

SpecFaults == Init /\ [][NextFaults]_vars

\* ------------------------------------------------- the storage backends
\* Blob names and prefixes are sequences of characters, '/' among them.
\* blobs is here the content of both backends after the same uploads: the
\* files and directories under LOCAL_STORAGE_DIR (paths are sequences of
\* components) and the names of the objects of the bucket.
StorageKeys == {<<"p", "/", "a">>, <<"p", "/", "a", "b">>, <<"p">>}
StorageQueries == StorageKeys \cup {<<>>, <<"p", "/">>, <<"p", "/", "a", "/">>, <<"q">>}

\* name.startswith(prefix)
StartsWith(name, prefix) ==
  Len(prefix) <= Len(name) /\ SubSeq(name, 1, Len(prefix)) = prefix

\* The components of os.path.join(storage_dir, blob_name) below storage_dir.
PathOf(blob_name) == SelectSeq(Split(blob_name, "/"), LAMBDA c : c # <<>>)

\* os.path.relpath(full_path, storage_dir)
RECURSIVE RelPath(_)
RelPath(path) ==
  IF path = <<>> THEN <<>>
  ELSE IF Len(path) = 1 THEN path[1]
  ELSE path[1] \o <<"/">> \o RelPath(Tail(path))

\* The directories a path lies in, storage_dir itself left out.
Ancestors(path) == {SubSeq(path, 1, k) : k \in 1..(Len(path) - 1)}

\* os.path.isdir(os.path.join(storage_dir, blob_name))
LocalIsDir(blob_name) == PathOf(blob_name) = <<>> \/ PathOf(blob_name) \in blobs.dirs

\* LocalStorageService.blob_exists: os.path.exists is true of a file and of a
\* directory; a file named with a trailing '/' is not found.
LocalBlobExists(blob_name) ==
  \/ LocalIsDir(blob_name)
  \/ /\ PathOf(blob_name) \in blobs.files
     /\ blob_name[Len(blob_name)] # "/"

\* LocalStorageService.list_blobs: the files below a directory, or the file
\* itself; the order of os.walk is left open, the result is taken as a set.
LocalListBlobs(prefix) ==
  IF ~LocalBlobExists(prefix) THEN {}
  ELSE IF LocalIsDir(prefix)
  THEN {RelPath(f) : f \in {g \in blobs.files :
                               /\ Len(g) > Len(PathOf(prefix))
                               /\ SubSeq(g, 1, Len(PathOf(prefix))) = PathOf(prefix)}}
  ELSE {RelPath(PathOf(prefix))}

\* LocalStorageService.upload_string_to_blob raises: os.makedirs meets a file
\* where a directory is needed, or open() meets a directory.
LocalUploadRaises(blob_name) ==
  \/ Ancestors(PathOf(blob_name)) \cap blobs.files # {}
  \/ PathOf(blob_name) \in blobs.dirs

\* GCPStorageService.blob_exists: the object of that very name exists.
GcpBlobExists(blob_name) == blob_name \in blobs.objects

\* GCPStorageService.list_blobs: the objects whose name begins with prefix.
GcpListBlobs(prefix) == {name \in blobs.objects : StartsWith(name, prefix)}

InitStorage ==
  /\ blobs = [files |-> {}, dirs |-> {}, objects |-> {}]
  /\ repo = <<>> /\ inflight = EmptyBag /\ started = 0
  /\ last = [NoOp EXCEPT !.name = NoneV]

\* upload_string_to_blob(content, blob_name) on both backends.
StorageUpload(blob_name) ==
  /\ blobs' =
       [files |-> IF LocalUploadRaises(blob_name) THEN blobs.files
                  ELSE blobs.files \cup {PathOf(blob_name)},
        dirs |-> IF Ancestors(PathOf(blob_name)) \cap blobs.files # {} THEN blobs.dirs
                 ELSE blobs.dirs \cup Ancestors(PathOf(blob_name)),
        objects |-> blobs.objects \cup {blob_name}]
  /\ last' = [NoOp EXCEPT !.op = "upload_string_to_blob", !.name = blob_name,
                          !.body = <<LocalUploadRaises(blob_name), FALSE>>]
  /\ UNCHANGED <<repo, inflight, started>>

\* blob_exists(blob_name) on both backends: body is the two results.
StorageExists(blob_name) ==
  /\ last' = [NoOp EXCEPT !.op = "blob_exists", !.name = blob_name,
                          !.body = <<LocalBlobExists(blob_name), GcpBlobExists(blob_name)>>]
  /\ UNCHANGED <<repo, blobs, inflight, started>>

\* list_blobs(prefix) on both backends: body is the two results.
StorageList(prefix) ==
  /\ last' = [NoOp EXCEPT !.op = "list_blobs", !.name = prefix,
                          !.body = <<LocalListBlobs(prefix), GcpListBlobs(prefix)>>]
  /\ UNCHANGED <<repo, blobs, inflight, started>>

NextStorage ==
  \/ \E blob_name \in StorageKeys : StorageUpload(blob_name)
  \/ \E blob_name \in StorageQueries \ {<<>>} : StorageExists(blob_name)
  \/ \E prefix \in StorageQueries : StorageList(prefix)

SpecStorage == InitStorage /\ [][NextStorage]_vars

\* Publishing: uploads whose name and version are given or left to the
\* archive, and downloads of what they may have stored, one after the other.
GivenNames == {NoneV, <<>>, <<"f">>}
GivenVersions == {NoneV, <<"2">>}
Archives == {Archive(<<>>)} \cup {Archive(<<c>>) : c \in ManifestContents(MaxManifestLines)}
DownloadKeys == {<<"f">>, <<"version:", " ", "1">>} \X {<<"1">>, <<"2">>}

NextPublish ==
  \/ /\ Admitted(MaxPublishes) /\ inflight = EmptyBag
     /\ \E package_name \in GivenNames, version \in GivenVersions, archive \in Archives :
          UploadExecute(package_name, version, archive)
  \/ \E r \in BagToSet(inflight) : UploadSave(r)
  \/ /\ Admitted(MaxPublishes) /\ inflight = EmptyBag
     /\ \E key \in DownloadKeys : DownloadStart(key[1], key[2])
  \/ \E r \in BagToSet(inflight) : DownloadCache(r)
  \/ \E r \in BagToSet(inflight) : DownloadSave(r)

\* Nothing is stored and nothing has returned; names are sequences here.
InitPublish ==
  /\ repo = <<>> /\ blobs = {} /\ inflight = EmptyBag /\ started = 0
  /\ last = [NoOp EXCEPT !.name = NoneV]

SpecPublish == InitPublish /\ [][NextPublish]_vars

\* ---------------------------------------------------------------- claims
\* A lookup that completes in the step that starts it (a HIT).
LookupHitStep ==
  /\ started' = started + 1
  /\ inflight' = inflight
  /\ last'.op \in {"get_package_info", "get_package_version"}

\* The step takes a new request whose handler runs up to position r.
Starts(r) == started' = started + 1 /\ inflight' = inflight (+) SetToBag({r})

\* The step is the return of the handler that stood at position r.
Returns(r) == inflight' = inflight (-) SetToBag({r})

\* C1: read-through caching of Lookup. A get_package_info that misses and
\* gets a payload from upstream returns that payload and leaves a record of
\* the package; records are never removed; and no get_package_info for a
\* recorded package goes upstream: it is answered from the repository with no
\* upstream call.
C1_ReadThroughLookup ==
  [][/\ DOMAIN repo \subseteq DOMAIN repo'
     /\ \A r \in BagToSet(inflight) :
          (r.pc = "info_save" /\ Returns(r)) =>
             /\ \E info \in PackageInfos[r.name] :
                  last' = ReturnedPayload("get_package_info", r.name, NoneV, info)
             /\ r.name \in DOMAIN repo'
     /\ \A r \in BagToSet(inflight') :
          (r.pc = "info_fetch" /\ Starts(r)) => r.name \notin DOMAIN repo
     /\ (LookupHitStep /\ last'.op = "get_package_info") =>
          (last'.ret = "repo" /\ last'.calls = 0)]_vars

\* C1 witness: a get_package_info answered from a record that an earlier
\* get_package_info wrote back from upstream.
C1_Witness ==
  /\ last.op = "get_package_info" /\ last.name = "foo"
  /\ last.ret = "repo" /\ last.calls = 0 /\ ~last.wrote
  /\ "foo" \in DOMAIN repo
  /\ repo["foo"].description = "description"
  /\ ~repo["foo"].is_private

\* C2: Lookup HIT. A get_package_info for a recorded package, and a
\* get_package_version for a recorded version, is answered from the
\* repository, makes no upstream call and writes nothing; a lookup goes
\* upstream only when the record (the version) is missing.
C2_LookupHit ==
  [][/\ LookupHitStep =>
          /\ last'.ret = "repo" /\ last'.calls = 0 /\ ~last'.wrote
          /\ repo' = repo /\ blobs' = blobs
          /\ last'.name \in DOMAIN repo
          /\ last'.op = "get_package_version" =>
                last'.version \in VersionNames(repo[last'.name].versions)
     /\ \A r \in BagToSet(inflight') :
          /\ (r.pc = "info_fetch" /\ Starts(r)) => r.name \notin DOMAIN repo
          /\ (r.pc = "version_fetch" /\ Starts(r)) =>
                ~(/\ r.name \in DOMAIN repo
                  /\ r.version \in VersionNames(repo[r.name].versions))]_vars

\* C2 witness: a get_package_version answered from the repository.
C2_Witness ==
  /\ last.op = "get_package_version" /\ last.name = "foo" /\ last.version = V100
  /\ last.ret = "repo" /\ last.calls = 0 /\ ~last.wrote
  /\ "foo" \in DOMAIN repo
  /\ V100 \in VersionNames(repo["foo"].versions)

\* C3: Lookup double miss. When the repository has no record (version) and
\* upstream answers nothing, the lookup returns None without raising, after
\* one upstream call, and the repository is unchanged.
C3_DoubleMiss ==
  [][\A r \in BagToSet(inflight) :
       (r.pc \in {"info_fetch", "version_fetch"} /\ Returns(r)) =>
          /\ last'.ret = "None" /\ last'.body = <<>>
          /\ last'.calls = 1 /\ ~last'.wrote
          /\ last'.name = r.name
          /\ repo' = repo]_vars

\* C3 witness: a get_package_info that found nothing anywhere.
C3_Witness ==
  /\ last = Returned("get_package_info", "foo", NoneV, "None", 1, FALSE)
  /\ repo = <<>>

\* A save_package_info that reaches save_package, seen as the return of r.
InfoSaveStep(r) == r.pc = "info_save" /\ Returns(r) /\ last'.wrote

\* new does not compare lower than old (no recorded latest is below anything).
NotLower(new, old) ==
  ~Truthy(old) \/ (Truthy(new) /\ RepoCompareVersions(new, old) >= 0)

\* C4: save_package_info never regresses latestVersion: the latest_version it
\* stores does not compare lower than the latest_version of the record it
\* read, for every existing record and every upstream payload.
C4_LatestNeverRegresses ==
  [][\A r \in BagToSet(inflight) :
       (InfoSaveStep(r) /\ r.found # <<>>) =>
          NotLower(repo'[r.name].latest_version, r.found[1].latest_version)]_vars

\* C5: save_package_info only appends: the versions of the record it read are
\* stored again unchanged and in place, and what follows them are the versions
\* of the payload whose version string the record did not have.
C5_MergeOnlyAppends ==
  [][\A r \in BagToSet(inflight) :
       InfoSaveStep(r) =>
          LET old == IF r.found = <<>> THEN <<>>
                     ELSE MetadataOf(r.found[1]).versions
              new == repo'[r.name].versions
              offered == VersionNames(last'.body[1].versions)
          IN /\ Len(new) >= Len(old)
             /\ SubSeq(new, 1, Len(old)) = old
             /\ \A i \in (Len(old) + 1)..Len(new) :
                  new[i].version \in offered \ VersionNames(old)
             /\ VersionNames(new) = VersionNames(old) \cup offered]_vars

\* C5 witness: a write-back from upstream onto a record that already held an
\* uploaded version the payload also lists; the uploaded version is still
\* there with its own digest, next to a version taken from the payload.
C5_Witness ==
  /\ last.op = "get_package_info" /\ last.wrote
  /\ "foo" \in DOMAIN repo
  /\ \E i, j \in 1..Len(repo["foo"].versions) :
       /\ repo["foo"].versions[i].archive_sha256 = "sha256(upload)"
       /\ repo["foo"].versions[i].version \in VersionNames(last.body[1].versions)
       /\ repo["foo"].versions[j].archive_sha256 = "sha256(upstream)"

\* The versions uploaded for n: in a run of uploads alone, the stored archives.
Uploaded(n) == {v \in UploadVersions : <<n, v>> \in blobs}

C7_NoVersionAboveLatest ==
  \A n \in DOMAIN repo :
    \A v \in VersionNames(repo[n].versions) :
      ~(Truthy(repo[n].latest_version) /\ RepoCompareVersions(v, repo[n].latest_version) > 0)

\* C8: in every reachable state each package's latest_version is the version
\* string of some element of its version set.
C8_LatestIsRecorded ==
  \A n \in DOMAIN repo : repo[n].latest_version \in VersionNames(repo[n].versions)

\* C9: in every reachable state no two entries of a package's version set have
\* the same version string.
C9_VersionsUnique ==
  \A n \in DOMAIN repo :
    \A i, j \in 1..Len(repo[n].versions) :
      i # j => repo[n].versions[i].version # repo[n].versions[j].version

\* C9 witness: a payload that lists one version twice was written back, and
\* the record holds that version once.
C9_Witness ==
  /\ last.op = "get_package_info" /\ last.wrote
  /\ Len(last.body[1].versions) = 2
  /\ last.body[1].versions[1] = last.body[1].versions[2]
  /\ "foo" \in DOMAIN repo
  /\ Len(repo["foo"].versions) = 1

\* C10: in every reachable state every stored package has a non-empty version
\* set.
C10_VersionsNonEmpty ==
  \A n \in DOMAIN repo : repo[n].versions # <<>>

\* C11: every successful upload leaves the stored package with is_private =
\* true, whether the upload created the record or the record was there before
\* (written back from upstream, is_private = false).
C11_UploadMarksPrivate ==
  [][\A r \in BagToSet(inflight) :
       (r.pc = "upload_save" /\ Returns(r) /\ last'.ret = "success") =>
          repo'[r.name].is_private]_vars

\* ------------------------------------- PackageRepository, called directly
\* PackageVersion entities a caller may hand over: uploaded or from upstream.
StoredVersions(n) ==
  {PackageVersion(v, DtNow, "{}", "{}", SelfUrl(n, v), "sha256(upload)") :
     v \in UpstreamVersions}
  \cup {PackageVersion(v, DtUpstream, "{http: ^1.0.0}", "{sdk: >=3.0.0}",
                       UpstreamUrl(n, v), "None") : v \in UpstreamVersions}

\* All lists of at most k of them.
RECURSIVE StoredVersionLists(_, _)
StoredVersionLists(n, k) ==
  IF k = 0 THEN {<<>>}
  ELSE StoredVersionLists(n, k - 1) \cup
       {Append(l, pv) :
          l \in {x \in StoredVersionLists(n, k - 1) : Len(x) = k - 1},
          pv \in StoredVersions(n)}

\* The Package entities handed to save_package.
Packages ==
  UNION {{Package(n, vs, l, d, d, d, private) :
            vs \in StoredVersionLists(n, MaxStoredVersions),
            l \in {NoneV, V100}, d \in {"None", "description"}, private \in BOOLEAN} :
         n \in Names}

\* save_package(package), lines 94-127.
RepositorySave(package) ==
  /\ repo' = SavePackage(package)
  /\ last' = [Returned("save_package", package.name, NoneV, "None", 0, TRUE)
                EXCEPT !.body = <<package>>]
  /\ UNCHANGED <<blobs, inflight, started>>

\* get_package(n), lines 50-92: last.body is what it returns.
RepositoryGet(n) ==
  /\ last' = [Returned("get_package", n, NoneV, "repo", 0, FALSE)
                EXCEPT !.body = GetPackage(n)]
  /\ UNCHANGED <<repo, blobs, inflight, started>>

NextRepository ==
  \/ \E package \in Packages : RepositorySave(package)
  \/ \E n \in Names : RepositoryGet(n)

SpecRepository == Init /\ [][NextRepository]_vars

Releases == {<<"2">>, <<"2", ".", "0">>, <<"1", "0">>}
Prereleases == {<<>>, <<"-", "a">>, <<"-", "a", "-", "b">>, <<"-", "b">>}
Builds == {<<>>, <<"+", "1">>, <<"+", "2">>}

\* The version strings compared: release, then prerelease, then build.
VersionStrings == {r \o p \o b : r \in Releases, p \in Prereleases, b \in Builds}

\* What a call of a comparator yields: it raises, or returns -1, 0 or 1.
RepoOutcome(a, b) ==
  [raised |-> RepoCompareRaises(a, b),
   value |-> IF RepoCompareRaises(a, b) THEN 0 ELSE RepoCompareVersions(a, b)]

UploadOutcome(a, b) ==
  [raised |-> UploadCompareRaises(a, b),
   value |-> IF UploadCompareRaises(a, b) THEN 0 ELSE UploadCompareVersions(a, b)]

\* Three version strings are given.
InitCompare ==
  /\ repo = <<>> /\ blobs = {} /\ inflight = EmptyBag /\ started = 0
  /\ \E a, b, c \in VersionStrings :
       last = [NoOp EXCEPT !.op = "versions", !.body = <<a, b, c>>]

\* Both comparators are called on every pair of the three.
CompareAll ==
  /\ last.op = "versions"
  /\ last' = [NoOp EXCEPT
                !.op = "_compare_versions",
                !.body = <<[args |-> last.body,
                            repo |-> [i \in 1..3 |-> [j \in 1..3 |->
                                        RepoOutcome(last.body[i], last.body[j])]],
                            upload |-> [i \in 1..3 |-> [j \in 1..3 |->
                                          UploadOutcome(last.body[i], last.body[j])]]]>>]
  /\ UNCHANGED <<repo, blobs, inflight, started>>

NextCompare == CompareAll

SpecCompare == InitCompare /\ [][NextCompare]_vars

\* The outcomes m of one comparator on three strings order them: no call
\* raises, compare(a,a) = 0, compare(a,b) = -compare(b,a), and <= is transitive.
Orders(m) ==
  /\ \A i, j \in 1..3 : ~m[i][j].raised
  /\ \A i \in 1..3 : m[i][i].value = 0
  /\ \A i, j \in 1..3 : m[i][j].value = -m[j][i].value
  /\ \A i, j, k \in 1..3 :
       (m[i][j].value <= 0 /\ m[j][k].value <= 0) => m[i][k].value <= 0

\* C13: compare is a total order on valid version strings, for both
\* implementations: compare(a,a) = 0, compare(a,b) = -compare(b,a), and
\* compare(a,b) <= 0 and compare(b,c) <= 0 imply compare(a,c) <= 0.
C13_CompareIsTotalOrder ==
  last.op = "_compare_versions" =>
     Orders(last.body[1].repo) /\ Orders(last.body[1].upload)

\* C13 witness: a prerelease, a build of a lower release and a higher release
\* were compared, and both comparators rank them in three different places.
C13_Witness ==
  /\ last.op = "_compare_versions"
  /\ last.body[1].args = <<<<"2", "-", "a">>, <<"2", ".", "0", "+", "1">>, <<"1", "0">>>>
  /\ \A m \in {last.body[1].repo, last.body[1].upload} :
       m[1][2].value = -1 /\ m[2][3].value = -1 /\ m[1][3].value = -1

\* A version string without its build suffix (what follows the first '+').
WithoutBuild(v) == Before(v, "+")

\* C14: build metadata never affects ordering. Two version strings that
\* differ only in their build suffix (v+x and v+y, or v+x and v, with or
\* without a prerelease in v) compare 0, and compare alike against every w.
C14_BuildNeverOrders ==
  last.op = "_compare_versions" =>
     LET args == last.body[1].args
         m == last.body[1].repo
     IN WithoutBuild(args[1]) = WithoutBuild(args[2]) =>
          /\ m[1][2].value = 0
          /\ m[1][3] = m[2][3]

\* The release segment of a version string, and its whole prerelease suffix:
\* everything after the first '-', build suffix removed (None without one).
ReleaseOf(v) == Before(WithoutBuild(v), "-")
PrereleaseOf(v) ==
  IF Has(WithoutBuild(v), "-") THEN AfterFirst(WithoutBuild(v), "-") ELSE NoneV

\* Python's three-way comparison of two strings.
StrCompare(a, b) == IF StrLess(a, b) THEN -1 ELSE IF StrLess(b, a) THEN 1 ELSE 0

\* C15: prerelease rule. When the release segments of a and b are numerically
\* equal (missing components counting as 0), a version without prerelease
\* compares greater than one with a prerelease, and two versions with
\* prereleases compare as their whole prerelease suffixes compare as strings;
\* in both implementations.
C15_PrereleaseRule ==
  last.op = "_compare_versions" =>
     LET a == last.body[1].args[1]
         b == last.body[1].args[2]
     IN CompareParts(Split(ReleaseOf(a), "."), Split(ReleaseOf(b), "."), 1) = 0 =>
          \A m \in {last.body[1].repo, last.body[1].upload} :
             /\ (PrereleaseOf(a) = NoneV /\ PrereleaseOf(b) # NoneV) =>
                   m[1][2].value = 1
             /\ (PrereleaseOf(a) # NoneV /\ PrereleaseOf(b) # NoneV) =>
                   m[1][2].value = StrCompare(PrereleaseOf(a), PrereleaseOf(b))

\* --------------------------------------------------- ListPackagesUseCase
\* Package names listed and searched, as strings of characters.
ListNames == {<<"a">>, <<"B">>, <<"a", "b">>}
\* Search queries: none, and one that matches by case-folded substring.
Queries == {<<>>, <<"b">>}

\* str.lower()
Lower(s) == [i \in 1..Len(s) |-> IF s[i] = "B" THEN "b" ELSE s[i]]

\* q in s, for strings
Contains(s, q) ==
  \E i \in 0..(Len(s) - Len(q)) : SubSeq(s, i + 1, i + Len(q)) = q

\* The metadata document stored for a listed name: "a" is an uploaded package
\* without description, "B" an uploaded one, "ab" one cached from upstream
\* whose description holds a "B".
ListedDocument(n) ==
  MetadataOf(Package(n, <<>>, V100,
                     IF n = <<"a">> THEN NoneV ELSE IF n = <<"B">> THEN <<"a">> ELSE <<"B">>,
                     NoneV, NoneV, n # <<"a", "b">>))

\* The repositories listed: any set of the names, each with its document.
ListedRepos == {[n \in S |-> ListedDocument(n)] : S \in SUBSET ListNames}

\* list_packages line 151-152: the filter on name and description.
Matches(package, query) ==
  \/ query = <<>>
  \/ Contains(Lower(package.name), Lower(query))
  \/ Truthy(package.description) /\ Contains(Lower(package.description), Lower(query))

\* list_packages lines 153-161: the dictionary of a package.
PackageSummary(package) ==
  [name |-> package.name, latest |-> package.latest_version,
   description |-> package.description, homepage |-> package.homepage,
   repository |-> package.repository, is_private |-> package.is_private]

\* The names of a set in the order the storage lists their blobs.
RECURSIVE Listing(_)
Listing(S) ==
  IF S = {} THEN <<>>
  ELSE LET first == CHOOSE n \in S : \A m \in S \ {n} : StrLess(n, m)
       IN <<first>> \o Listing(S \ {first})

\* list_packages lines 142-164: the loop over the metadata blobs.
RECURSIVE SummariesOf(_, _, _)
SummariesOf(blobnames, query, i) ==
  IF i > Len(blobnames) THEN <<>>
  ELSE LET found == GetPackage(blobnames[i])
       IN (IF found # <<>> /\ Matches(found[1], query)
           THEN <<PackageSummary(found[1])>> ELSE <<>>)
          \o SummariesOf(blobnames, query, i + 1)

\* PackageRepository.list_packages(query)
ListPackages(query) == SummariesOf(Listing(DOMAIN repo), query, 1)

\* The entries of an upstream search answer: {'package': name}, or an entry
\* without a name.
SearchEntries == ListNames \cup {NoneV}

\* All lists of at most k entries, repetitions included.
RECURSIVE SearchLists(_)
SearchLists(k) ==
  IF k = 0 THEN {<<>>}
  ELSE SearchLists(k - 1) \cup
       {Append(l, e) : l \in {x \in SearchLists(k - 1) : Len(x) = k - 1},
                       e \in SearchEntries}

\* The upstream search as the use case meets it: unavailable (None), answering
\* with all its matches whatever the page, or answering page by page.
Upstreams ==
  {[kind |-> "unavailable", matches |-> <<>>]}
  \cup {[kind |-> k, matches |-> l] : k \in {"whole", "paged"}, l \in SearchLists(MaxSearchLen)}

Min(a, b) == IF a <= b THEN a ELSE b

\* Variant: pages are counted from 0.
PageSliceFromZero(s, page, page_size) ==
  IF page * page_size >= Len(s) THEN <<>>
  ELSE SubSeq(s, page * page_size + 1, Min((page + 1) * page_size, Len(s)))

\* s[(page - 1) * page_size : page * page_size]
PageSlice(s, page, page_size) ==
  IF (page - 1) * page_size >= Len(s) THEN <<>>
  ELSE SubSeq(s, (page - 1) * page_size + 1, Min(page * page_size, Len(s)))

\* PubDevService.search_packages(query, page, page_size): None is <<>>, an
\* answer is <<packages>>.
SearchPackages(upstream, page, page_size) ==
  CASE upstream.kind = "unavailable" -> <<>>
    [] upstream.kind = "whole" -> <<upstream.matches>>
    [] upstream.kind = "paged" -> <<PageSlice(upstream.matches, page, page_size)>>

\* execute lines 72-79: the dictionary of a package found upstream only.
PubDevSummary(n) ==
  [name |-> n, latest_version |-> "latest", description |-> "Package from pub.dev",
   is_private |-> FALSE, homepage |-> <<"https://pub.dev/packages/", n>>,
   repository |-> NoneV]

\* execute lines 66-79: the loop over the upstream packages.
RECURSIVE AddPubDevPackages(_, _, _, _)
AddPubDevPackages(packages, private_names, entries, i) ==
  IF i > Len(entries) THEN packages
  ELSE AddPubDevPackages(
         IF Truthy(entries[i]) /\ entries[i] \notin private_names
         THEN Append(packages, PubDevSummary(entries[i])) ELSE packages,
         private_names, entries, i + 1)

\* Variant: without an upstream answer nothing is listed.
CombinedNeedsUpstream(private_packages, pub_dev_packages) ==
  IF pub_dev_packages = <<>> THEN <<>>
  ELSE AddPubDevPackages(private_packages,
                         {private_packages[i].name : i \in 1..Len(private_packages)},
                         pub_dev_packages[1], 1)

\* execute lines 62-79: the combined list, before it is sorted.
Combined(private_packages, pub_dev_packages) ==
  IF pub_dev_packages = <<>> THEN private_packages
  ELSE AddPubDevPackages(private_packages,
                         {private_packages[i].name : i \in 1..Len(private_packages)},
                         pub_dev_packages[1], 1)

\* list.sort(key=name): x goes behind every entry whose name is not greater.
RECURSIVE InsertByName(_, _)
InsertByName(sorted, x) ==
  IF sorted = <<>> THEN <<x>>
  ELSE IF StrLess(x.name, sorted[Len(sorted)].name)
       THEN Append(InsertByName(SubSeq(sorted, 1, Len(sorted) - 1), x),
                   sorted[Len(sorted)])
       ELSE Append(sorted, x)

\* execute line 82: packages.sort(key=lambda p: p['name'])
RECURSIVE SortByName(_)
SortByName(packages) ==
  IF packages = <<>> THEN <<>>
  ELSE InsertByName(SortByName(SubSeq(packages, 1, Len(packages) - 1)),
                    packages[Len(packages)])

\* Variant: the number of pages is rounded down.
PagesOfFloor(total, page_size) == total \div page_size

\* execute line 94: (len(packages) + page_size - 1) // page_size
PagesOf(total, page_size) == (total + page_size - 1) \div page_size

\* execute lines 56-82: the local results, the upstream answer and the
\* combined list after the sort.
Locals(query, page, page_size, upstream) ==
  LET private_packages == ListPackages(query)
      pub_dev_packages == SearchPackages(upstream, page, page_size)
  IN [private_packages |-> private_packages,
      pub_dev_packages |-> pub_dev_packages,
      packages |-> SortByName(Combined(private_packages, pub_dev_packages))]

\* ListPackagesUseCase.execute(query, page, page_size) against an upstream:
\* lines 85-95, the dictionary returned.
Execute(query, page, page_size, upstream) ==
  LET packages == Locals(query, page, page_size, upstream).packages
  IN [packages |-> PageSlice(packages, page, page_size),
      total |-> Len(packages), page |-> page, page_size |-> page_size,
      pages |-> PagesOf(Len(packages), page_size)]

\* A repository and a listing request are given.
InitList ==
  /\ repo \in ListedRepos
  /\ blobs = {} /\ inflight = EmptyBag /\ started = 0
  /\ \E query \in Queries, page \in 1..MaxPage, page_size \in 1..MaxPageSize,
        upstream \in Upstreams :
       last = [NoOp EXCEPT !.op = "list_request",
                           !.body = <<[query |-> query, page |-> page,
                                       page_size |-> page_size, upstream |-> upstream]>>]

\* The request is served: last.body holds the request, what execute returned
\* and the lists it built on the way.
ListExecute ==
  /\ last.op = "list_request"
  /\ LET req == last.body[1]
     IN last' = [NoOp EXCEPT
                   !.op = "list_packages", !.ret = "success", !.calls = 1,
                   !.body = <<req,
                              Execute(req.query, req.page, req.page_size, req.upstream),
                              Locals(req.query, req.page, req.page_size, req.upstream)>>]
  /\ UNCHANGED <<repo, blobs, inflight, started>>

NextList == ListExecute

SpecList == InitList /\ [][NextList]_vars

\* The request served last, what it returned and the lists it built.
ListRequest == last.body[1]
ListResult == last.body[2]
ListLocals == last.body[3]

\* C16: list merge priority. The merged list has at most one entry per
\* package name, and every local result is in it as it is (so a name found
\* both locally and upstream is listed once, by its local entry).
C16_MergePriority ==
  last.op = "list_packages" =>
     LET packages == ListLocals.packages
         private == ListLocals.private_packages
     IN /\ \A i, j \in 1..Len(packages) :
             i # j => packages[i].name # packages[j].name
        /\ \A i \in 1..Len(private) :
             \E j \in 1..Len(packages) : packages[j] = private[i]

\* ceil(n / d), for d >= 1: the least k with k * d >= n.
CeilDiv(n, d) == CHOOSE k \in 0..n : k * d >= n /\ \A j \in 0..(k - 1) : j * d < n

\* What execute returns for page q of the request served last (same query,
\* page size, repository and upstream), and the list it combines for it.
ListedPage(q) ==
  Execute(ListRequest.query, q, ListRequest.page_size, ListRequest.upstream)
ListedCatalog(q) ==
  Locals(ListRequest.query, q, ListRequest.page_size, ListRequest.upstream).packages

\* The entries returned for pages 1..q, one after the other.
RECURSIVE ListedThrough(_)
ListedThrough(q) ==
  IF q = 0 THEN <<>> ELSE ListedThrough(q - 1) \o ListedPage(q).packages

\* The merged catalog is the same N entries for every page up to two pages
\* past the last one.
ListSameCatalog ==
  \A q \in 1..(CeilDiv(Len(ListLocals.packages), ListRequest.page_size) + 2) :
    ListedCatalog(q) = ListLocals.packages

CountOf(s, x) == Cardinality({i \in 1..Len(s) : s[i] = x})

\* s is t in ascending order of name.
IsSortedByName(s, t) ==
  /\ Len(s) = Len(t)
  /\ \A i \in 1..Len(t) : CountOf(s, t[i]) = CountOf(t, t[i])
  /\ \A i, j \in 1..Len(s) : i < j => ~StrLess(s[j].name, s[i].name)

\* The entries of s at the indexes [(page-1)*page_size, page*page_size).
IsPageOf(packages, s, page, page_size) ==
  LET start == (page - 1) * page_size
      n == Max(0, Min(page_size, Len(s) - start))
  IN packages = [k \in 1..n |-> s[start + k]]

\* C18: list page arithmetic. execute returns the merged list sorted by name
\* ascending and sliced to [(page-1)*pageSize, page*pageSize), with total the
\* size of the merged list and pages = ceil(total/pageSize), 0 when empty.
C18_PageArithmetic ==
  last.op = "list_packages" =>
     LET merged == Combined(ListLocals.private_packages, ListLocals.pub_dev_packages)
         sorted == ListLocals.packages
     IN /\ IsSortedByName(sorted, merged)
        /\ IsPageOf(ListResult.packages, sorted, ListRequest.page, ListRequest.page_size)
        /\ ListResult.total = Len(merged)
        /\ ListResult.pages = CeilDiv(Len(merged), ListRequest.page_size)
        /\ merged = <<>> => ListResult.pages = 0

\* C18 witness: page 2 of size 2 of four entries that were combined in
\* another order than that of their names; the page is full.
C18_Witness ==
  /\ last.op = "list_packages"
  /\ Combined(ListLocals.private_packages, ListLocals.pub_dev_packages)
       # ListLocals.packages
  /\ ListRequest.page = 2 /\ ListRequest.page_size = 2
  /\ ListResult.total = 4 /\ ListResult.pages = 2
  /\ Len(ListResult.packages) = 2

\* The summaries of the stored packages that match the query.
LocalMatches ==
  {PackageSummary(PackageOf(repo[n])) :
     n \in {m \in DOMAIN repo : Matches(PackageOf(repo[m]), ListRequest.query)}}

\* C19: list degrades on upstream failure. When the upstream search returns
\* None, execute does not fail and returns the local results alone, sorted and
\* paginated, with total the number of local matches.
C19_UpstreamFailure ==
  (last.op = "list_packages" /\ ListLocals.pub_dev_packages = <<>>) =>
     /\ last.ret = "success"
     /\ ListResult.total = Cardinality(LocalMatches)
     /\ {ListLocals.packages[i] : i \in 1..Len(ListLocals.packages)} = LocalMatches
     /\ IsSortedByName(ListLocals.packages, ListLocals.private_packages)
     /\ IsPageOf(ListResult.packages, ListLocals.packages,
                 ListRequest.page, ListRequest.page_size)

\* C19 witness: upstream is unavailable, two of three stored packages match
\* the query, and the first page of size 1 holds the first of them by name.
C19_Witness ==
  /\ last.op = "list_packages"
  /\ ListRequest.upstream.kind = "unavailable"
  /\ ListRequest.query = <<"b">> /\ Cardinality(DOMAIN repo) = 3
  /\ ListRequest.page = 1 /\ ListRequest.page_size = 1
  /\ ListResult.total = 2
  /\ ListResult.packages = <<PackageSummary(PackageOf(repo[<<"B">>]))>>

\* C20: Download HIT. Whenever the archive blob of (name, version) is stored,
\* a download of it returns the stored blob as a local file (is_stream =
\* False), makes no upstream fetch and changes neither the blobs nor the
\* metadata; a download goes upstream only when the blob is missing.
C20_DownloadHit ==
  [][/\ (started' = started + 1 /\ inflight' = inflight /\ last'.op = "download") =>
          /\ <<last'.name, last'.version>> \in blobs
          /\ last'.ret = "file" /\ last'.calls = 0 /\ ~last'.wrote
          /\ repo' = repo /\ blobs' = blobs
     /\ \A r \in BagToSet(inflight') :
          (r.pc = "download_fetch" /\ Starts(r)) => <<r.name, r.version>> \notin blobs]_vars

\* C20 witness: a download served from the blob an upload stored.
C20_Witness ==
  /\ last = Leaving(Returned("download", "foo", V100, "file", 0, FALSE), "exists")
  /\ <<"foo", V100>> \in blobs
  /\ "foo" \in DOMAIN repo
  /\ repo["foo"].is_private

C22_UploadThenDownload ==
  [][/\ blobs \subseteq blobs'
     /\ \A r \in BagToSet(inflight') :
          (r.pc = "upload_save" /\ Starts(r)) => <<r.name, r.version>> \in blobs'
     /\ \A r \in BagToSet(inflight) :
          (r.pc = "upload_save" /\ Returns(r) /\ last'.ret = "success") =>
             /\ last'.op = "upload"
             /\ last'.name = r.name /\ last'.version = r.version
             /\ <<r.name, r.version>> \in blobs'
             /\ r.name \in DOMAIN repo'
             /\ r.version \in VersionNames(repo'[r.name].versions)
     /\ (started' = started + 1 /\ inflight' = inflight /\ last'.op = "download") =>
          /\ <<last'.name, last'.version>> \in blobs
          /\ last'.ret = "file" /\ last'.calls = 0
     /\ \A r \in BagToSet(inflight') :
          (r.pc = "download_fetch" /\ Starts(r)) => <<r.name, r.version>> \notin blobs]_vars

\* C22 witness: version 1 of f, a version only a manifest names, was uploaded
\* without name and version, and the download of (f, 1) that followed was
\* served from the stored archive.
C22_Witness ==
  /\ last = Leaving(Returned("download", <<"f">>, <<"1">>, "file", 0, FALSE), "exists")
  /\ <<"f">> \in DOMAIN repo
  /\ repo[<<"f">>].is_private
  /\ repo[<<"f">>].latest_version = <<"1">>
  /\ repo[<<"f">>].versions[1].archive_sha256 = "sha256(upload)"
  /\ repo[<<"f">>].versions[1].archive_url = SelfUrl(<<"f">>, <<"1">>)

\* The manifest has a line of the key with a value on it.
HasLine(content, key) ==
  \E i \in 1..Len(content) :
    /\ i = 1 \/ content[i - 1] = "\n"
    /\ content[i] = key
    /\ i + 2 <= Len(content)
    /\ content[i + 1] = " "
    /\ content[i + 2] \notin Whitespace

\* The archives without a manifest, or whose manifest has no name: line or no
\* version: line with a value.
LackingArchives ==
  {a \in Archives :
     \/ a.pubspec = <<>>
     \/ ~HasLine(a.pubspec[1], "name:")
     \/ ~HasLine(a.pubspec[1], "version:")}

\* C23: Upload validation. An upload without name or without version, of an
\* archive that has no manifest or whose manifest has no parsable name: or
\* version: line, ends with ValueError, stores no archive and leaves every
\* metadata document unchanged.
C23_UploadValidation ==
  [][\A package_name \in GivenNames, version \in GivenVersions, archive \in LackingArchives :
       (/\ ~(Truthy(package_name) /\ Truthy(version))
        /\ UploadExecute(package_name, version, archive)) =>
          /\ last'.op = "upload" /\ last'.ret = "ValueError"
          /\ blobs' = blobs /\ repo' = repo /\ inflight' = inflight]_vars

\* C24: write-back failure keeps the response. A lookup that missed locally
\* and got a payload from upstream returns that payload to its caller also
\* when the repository write-back did not take place, and the repository is
\* then as it was.
C24_WriteBackFailure ==
  [][\A r \in BagToSet(inflight) :
       (r.pc \in {"info_save", "version_save"} /\ Returns(r)) =>
          /\ last'.body # <<>>
          /\ ~last'.wrote => repo' = repo]_vars

\* C27: temporary-file release. When an upload returns, and when a download
\* that reached its cache-population step returns, the temporary file it made
\* no longer exists, whatever the exit path, a failed storage upload of the
\* download excepted.
C27_TempFileReleased ==
  [][/\ \A r \in BagToSet(inflight) :
          (r.pc \in {"upload_save", "download_fetch", "download_save"} /\ Returns(r)) =>
             \/ last'.temp_file = "unlinked"
             \/ r.pc = "download_fetch" /\ last'.ret = "storage_error"
     /\ (started' = started + 1 /\ inflight' = inflight /\ last'.op = "upload") =>
          last'.temp_file = "unlinked"]_vars

\* The step takes the handler of r on to position r2 of the same request.
MovesOn(r, r2) ==
  /\ r2.name = r.name /\ r2.version = r.version
  /\ inflight' = (inflight (-) SetToBag({r})) (+) SetToBag({r2})

StoredVersion(n, v) == repo[n].versions[IndexOfVersion(repo[n].versions, v)]

\* C25: Lookup HIT returns the record verbatim. A get_package_version
\* answered from the repository carries the stored version's own data: its
\* archive_url is the stored one and its pubspec name is the package name; a
\* get_package_info answered from the repository lists exactly the stored
\* versions, each with its stored fields.
C25_HitReturnsRecord ==
  [][/\ (LookupHitStep /\ last'.op = "get_package_version") =>
          /\ last'.body[1].version = last'.version
          /\ last'.body[1].archive_url = StoredVersion(last'.name, last'.version).archive_url
          /\ last'.body[1].pubspec.name = last'.name
     /\ (LookupHitStep /\ last'.op = "get_package_info") =>
          LET listed == last'.body[1].versions
              stored == repo[last'.name].versions
          IN /\ Len(listed) = Len(stored)
             /\ \A i \in 1..Len(stored) :
                  /\ listed[i].version = stored[i].version
                  /\ listed[i].published = stored[i].published
                  /\ listed[i].archive_url = stored[i].archive_url
                  /\ listed[i].archive_sha256 = stored[i].archive_sha256
                  /\ listed[i].pubspec.dependencies = stored[i].dependencies
                  /\ listed[i].pubspec.environment = stored[i].environment]_vars

\* C28: list(prefix) of the local backend returns exactly the stored keys
\* whose name starts with prefix, for every prefix string, one that ends in
\* the middle of a path component included; so for a prefix that names a
\* stored leaf blob, that key is returned.
C28_ListByPrefix ==
  last.op = "list_blobs" =>
     /\ last.body[1] = {RelPath(f) : f \in {g \in blobs.files : StartsWith(RelPath(g), last.name)}}
     /\ PathOf(last.name) \in blobs.files /\ last.name = RelPath(PathOf(last.name)) =>
           last.name \in last.body[1]

\* A name that only names a container: a proper path prefix of stored keys.
OnlyContainer(blob_name) ==
  /\ blob_name \notin blobs.objects
  /\ \E name \in blobs.objects : StartsWith(name, blob_name \o <<"/">>)

\* C29: backend interchangeability. After the same uploads the local backend
\* and the object-storage backend answer blob_exists(key) and list_blobs(prefix)
\* alike for every key and prefix, and blob_exists is false for a key that
\* only names a container.
C29_BackendsAgree ==
  /\ last.op \in {"blob_exists", "list_blobs"} => last.body[1] = last.body[2]
  /\ (last.op = "blob_exists" /\ OnlyContainer(last.name)) =>
        (~last.body[1] /\ ~last.body[2])

\* ------------------------- save_package on the local backend, in its steps
\* LocalStorageService.upload_string_to_blob is open(target_path, 'w'), which
\* empties the file, and then f.write(content), which reaches the file from
\* the handle's own offset 0 when the file is closed. Here repo[n] is the
\* content of packages/{n}/metadata.json, a sequence of pieces of text.

\* json.dumps(metadata): the text up to the versions list, one piece for each
\* version, and the closing brackets.
JsonDumps(metadata) ==
  <<[metadata EXCEPT !.versions = "["]>> \o metadata.versions \o <<[close |-> "]}"]>>

\* The Package entities two racing uploads of one package hand to
\* save_package: their documents differ in the versions list alone, whose
\* entries are all of one width.
SavedPackages ==
  {package \in Packages :
     /\ package.is_private /\ package.latest_version = V100
     /\ package.description = "None"
     /\ \A i \in 1..Len(package.versions) :
          /\ package.versions[i].published = DtNow
          /\ \A j \in 1..Len(package.versions) :
               package.versions[i].version = package.versions[j].version => i = j}

\* A write at offset 0 of a file opened before: what lay beyond stays.
WriteAtStart(old, content) == content \o SubSeq(old, Len(content) + 1, Len(old))

\* save_package up to open(target_path, 'w'): the document is serialised (line
\* 127 of the repository) and the file is created or emptied (line 76).
SaveOpen(package) ==
  /\ CanStart
  /\ Begin(Request("opened", package.name, NoneV, <<package>>, 0))
  /\ repo' = [m \in DOMAIN repo \cup {package.name} |->
                IF m = package.name THEN <<>> ELSE repo[m]]
  /\ UNCHANGED <<blobs, last>>

\* f.write(content) and the close of the with block (lines 76-77): save_package
\* returns.
SaveWrite(r) ==
  /\ r.pc = "opened"
  /\ repo' = [repo EXCEPT ![r.name] =
                WriteAtStart(@, JsonDumps(MetadataOf(r.found[1])))]
  /\ Finish(r, [Returned("save_package", r.name, NoneV, "None", 0, TRUE)
                  EXCEPT !.body = r.found])
  /\ UNCHANGED <<blobs, started>>

NextSaves ==
  \/ Admitted(MaxSaves) /\ \E package \in SavedPackages : SaveOpen(package)
  \/ \E r \in BagToSet(inflight) : SaveWrite(r)

SpecSaves == Init /\ [][NextSaves]_vars

\* C26: last write wins under concurrency. When the saves of two operations
\* on the metadata document of one package interleave, the document stored
\* in the end is exactly the whole document of the save that happened last,
\* never a mixture of both writers' documents, and its versions are unique.
C26_LastWriteWins ==
  (last.op = "save_package" /\ inflight = EmptyBag) =>
     repo[last.name] = JsonDumps(MetadataOf(last.body[1]))

C32_UploadStorageFailure ==
  [][/\ (started' = started + 1 /\ inflight' = inflight /\ last'.op = "upload") =>
          /\ last'.ret = "storage_error" /\ ~last'.wrote
          /\ repo' = repo /\ blobs' = blobs
     /\ \A r \in BagToSet(inflight') :
          (r.pc = "upload_save" /\ Starts(r)) => <<r.name, r.version>> \in blobs'
     /\ \A r \in BagToSet(inflight) :
          (r.pc = "upload_save" /\ Returns(r) /\ repo' # repo) =>
             <<r.name, r.version>> \in blobs]_vars

\* C32 witness: after an upload had recorded a package, an upload of another
\* version failed to store its archive, and the record has one version still.
C32_Witness ==
  /\ last.op = "upload" /\ last.ret = "storage_error" /\ ~last.wrote
  /\ inflight = EmptyBag /\ started = 2
  /\ last.name \in DOMAIN repo
  /\ repo[last.name].is_private
  /\ last.version \notin VersionNames(repo[last.name].versions)
  /\ <<last.name, last.version>> \notin blobs

\* C33: the two implementations of the version ordering agree. For all
\* version strings a and b, prerelease suffixes that contain '-' and build
\* suffixes included, PackageRepository._compare_versions(a, b) and
\* UploadPackageUseCase._compare_versions(a, b) give the same outcome.
C33_ComparatorsAgree ==
  last.op = "_compare_versions" =>
     \A i, j \in 1..3 : last.body[1].repo[i][j] = last.body[1].upload[i][j]

\* C34: durability of an upload under interleaving. Once an upload of (name,
\* v) has returned success, v stays in the stored versions of name in every
\* later state, also when another operation on the package read the document
\* before the upload saved and saves after it.
C34_UploadDurable ==
  [][\A n \in DOMAIN repo :
       \A i \in 1..Len(repo[n].versions) :
          repo[n].versions[i].archive_sha256 = "sha256(upload)" =>
             /\ n \in DOMAIN repo'
             /\ repo[n].versions[i].version \in VersionNames(repo'[n].versions)]_vars

\* C35: self-referential archive links are never dangling. In every reachable
\* state, every stored version whose archive_url is the application's own
\* download URL of (name, version) has its archive blob in the storage, under
\* any interleaving of the operations, storage failures included.
C35_NoDanglingLink ==
  \A n \in DOMAIN repo :
    \A i \in 1..Len(repo[n].versions) :
       repo[n].versions[i].archive_url = SelfUrl(n, repo[n].versions[i].version) =>
          <<n, repo[n].versions[i].version>> \in blobs

\* C35 witness: a record of two versions, both pointing at the application
\* itself, both archives stored.
C35_Witness ==
  /\ inflight = EmptyBag
  /\ "foo" \in DOMAIN repo /\ Len(repo["foo"].versions) = 2
  /\ \A i \in 1..2 :
       /\ repo["foo"].versions[i].archive_url = SelfUrl("foo", repo["foo"].versions[i].version)
       /\ <<"foo", repo["foo"].versions[i].version>> \in blobs

\* ------------------------------- downloads by what upstream answered
\* What PubDevService.download_package hands to the use case, as the chunks
\* it yields: None after a RequestException, no chunk for a status other than
\* 200 (the Response is built from b''), the archive's chunks for 200.
StreamOfStatus == <<>>
StreamOfArchive == <<"chunk">>
DownloadStreams == {NoneV, StreamOfStatus, StreamOfArchive}

\* DownloadPackageUseCase.execute, whole: a stored blob is returned as a file;
\* otherwise _cache_package writes the chunks of the stream to the temporary
\* file (None cannot be iterated: TypeError), stores the file as the blob,
\* updates the record, and the stream of a second fetch is returned.
DownloadExecute(n, v, stream) ==
  /\ started' = started + 1
  /\ IF DownloadHit(n, v)
     THEN /\ last' = Leaving(Returned("download", n, v, "file", 0, FALSE), "exists")
          /\ UNCHANGED <<repo, blobs>>
     ELSE IF stream = NoneV
     THEN /\ last' = [Leaving(Returned("download", n, v, "raise", 1, FALSE), "exists")
                        EXCEPT !.body = <<stream>>]
          /\ UNCHANGED <<repo, blobs>>
     ELSE /\ blobs' = blobs \cup {<<n, v>>}
          /\ IF CacheTouches(GetPackage(n), v)
             THEN repo' = SavePackage(CachedPackage(GetPackage(n), n, v))
             ELSE UNCHANGED repo
          /\ last' = [Leaving(Returned("download", n, v, "stream", 2,
                                       CacheTouches(GetPackage(n), v)), "unlinked")
                        EXCEPT !.body = <<stream>>]
  /\ UNCHANGED inflight

\* Downloads and version lookups, one after the other.
NextFetches ==
  \/ /\ Admitted(MaxFetches) /\ inflight = EmptyBag
     /\ \E n \in Names, v \in Versions, stream \in DownloadStreams :
          DownloadExecute(n, v, stream)
  \/ /\ Admitted(MaxFetches) /\ inflight = EmptyBag
     /\ \E n \in Names, v \in Versions : LookupVersionStart(n, v)
  \/ \E r \in BagToSet(inflight) : LookupVersionFetch(r)
  \/ \E r \in BagToSet(inflight) : LookupVersionSave(r)

SpecFetches == Init /\ [][NextFetches]_vars

OnlyVersionLookups(n) ==
  /\ n \in DOMAIN repo
  /\ ~repo[n].is_private /\ repo[n].description = "None"
  /\ \A i \in 1..Len(repo[n].versions) :
       repo[n].versions[i].archive_sha256 # "sha256(upload)"

\* C37: cache completeness of package lookup. For a package without local
\* uploads, a get_package_info answered from the repository lists every
\* version the upstream registry publishes of the package, also when the
\* record was first made by get_package_version for one version.
C37_CacheComplete ==
  [][(/\ LookupHitStep /\ last'.op = "get_package_info"
      /\ OnlyVersionLookups(last'.name)) =>
        UpstreamVersions \subseteq VersionNames(last'.body[1].versions)]_vars

\* C38: is_private is monotone. Once the stored record of a package has
\* is_private = true it has it in every later state, for every sequence and
\* interleaving of uploads, lookup write-backs and download write-backs on the
\* package, a write-back that read the package as absent before a concurrent
\* upload saved it included.
C38_PrivateIsMonotone ==
  [][\A n \in DOMAIN repo :
       repo[n].is_private => (n \in DOMAIN repo' /\ repo'[n].is_private)]_vars

\* C39: upstream results are reachable through List. For every page p >= 1
\* and page size P, each package the upstream search returns for (query, p,
\* P) that no local package of the same name shadows is among the packages
\* execute(query, p, P) returns; with no local packages, page 2 returns the
\* upstream results of page 2.
C39_UpstreamReachable ==
  (/\ last.op = "list_packages" /\ ListRequest.upstream.kind = "paged"
   /\ ListLocals.pub_dev_packages # <<>>) =>
     LET found == ListLocals.pub_dev_packages[1]
         private_names == {ListLocals.private_packages[i].name :
                             i \in 1..Len(ListLocals.private_packages)}
     IN \A i \in 1..Len(found) :
          (Truthy(found[i]) /\ found[i] \notin private_names) =>
             \E k \in 1..Len(ListResult.packages) : ListResult.packages[k].name = found[i]

====
